---- MODULE Spec2Model ----
(***************************************************************************)
(* Model of src/src/rp_handler.py: the RunPod job handler that drives a    *)
(* ComfyUI service (readiness probe, image upload, workflow submission,    *)
(* history polling, output resolution, output-directory cleanup).          *)
(*                                                                         *)
(* One worker process runs jobs one at a time.  The generation service,    *)
(* the filesystem and the object store are the environment: every answer   *)
(* they can give is a nondeterministic choice of the action that asks.     *)
(***************************************************************************)
EXTENDS Integers, Sequences, FiniteSets, TLC

(* ------------------------------ bounds --------------------------------- *)
\* longest asset list of a job input
MaxAssets == 3
\* attempts of the readiness probe (500 in the source, scaled down)
MaxProbeRetries == 2
\* largest configured COMFY_POLLING_MAX_RETRIES
MaxPollRetries == 2
\* largest configured COMFY_POLLING_INTERVAL_MS (in model time units)
MaxPollInterval == 1
\* longest time one history request can take (model time units)
MaxLatency == 1

(* --------------------------- configuration ----------------------------- *)
COMFY_API_AVAILABLE_MAX_RETRIES == MaxProbeRetries

VARIABLES
    REFRESH_WORKER,             \* module constant read from the environment
    COMFY_POLLING_INTERVAL_MS,  \* module constant read from the environment
    COMFY_POLLING_MAX_RETRIES,  \* module constant read from the environment
    pc,                \* position of the worker in handler()
    job_input,         \* job["input"] of the running job
    validated_data,    \* first component of validate_input's result
    i,                 \* loop index of check_server
    serverReady,       \* value returned by check_server
    idx,               \* position of upload_images in the list (1-based)
    responses,         \* upload_images: confirmations
    upload_errors,     \* upload_images: per-asset error strings
    upload_result,     \* value returned by upload_images
    outcomes,          \* what the service answered to each upload request
    queued,            \* how the service answered POST /prompt
    elapsed,           \* time.time() - start_time, capped at the deadline
    outputs,           \* history[prompt_id]["outputs"] of the last answer
    result,            \* payload handler returns (or the resolver's result)
    dir,               \* files under COMFY_OUTPUT_PATH
    dirExists,         \* whether COMFY_OUTPUT_PATH exists
    nGet, nUpload, nPrompt, nHistory,   \* requests issued by the running job
    cleaned,           \* the Cleanup block ran in the running job
    cleanupFailed,     \* some os.remove of a Cleanup block has failed so far
    env                \* what the resolver met when it materialized a file

cfg == <<REFRESH_WORKER, COMFY_POLLING_INTERVAL_MS, COMFY_POLLING_MAX_RETRIES>>
probeVars == <<i, serverReady>>
uploadVars == <<idx, responses, upload_errors, upload_result, outcomes>>
pollVars == <<elapsed, outputs>>
fsVars == <<dir, dirExists>>
netVars == <<nGet, nUpload, nPrompt, nHistory>>
vars == <<cfg, pc, job_input, validated_data, probeVars, uploadVars,
          queued, pollVars, result, fsVars, netVars, cleaned, cleanupFailed, env>>

(* ------------------------------ job input ------------------------------ *)
\* Elements an "images" list can hold:
\*   ok          {"name": .., "image": <valid base64>}
\*   undecodable {"name": .., "image": <text base64.b64decode rejects>}
\*   incomplete  a mapping without the key "name" or without the key "image"
\*   str         a text such as "name-image" (both words occur as substrings)
\*   int         a number
ElemKinds == {"ok", "undecodable", "incomplete", "str", "int"}

RECURSIVE SeqsUpTo(_, _)
SeqsUpTo(S, n) ==
    IF n = 0 THEN {<<>>}
    ELSE LET shorter == SeqsUpTo(S, n - 1)
         IN  shorter \cup {Append(s, e) : s \in {t \in shorter : Len(t) = n - 1}, e \in S}

NoImages == [present |-> FALSE, isList |-> FALSE, items |-> <<>>]
ImagesValues ==
    {NoImages, [present |-> TRUE, isList |-> FALSE, items |-> <<>>]}
    \cup {[present |-> TRUE, isList |-> TRUE, items |-> s] : s \in SeqsUpTo(ElemKinds, MaxAssets)}

\* kind: None | badjson (text that is not JSON) | str_nonmap (text that decodes
\* to a list, number or null) | str_map (text that decodes to a mapping) | map
JobInputs ==
    {[kind |-> k, workflow |-> FALSE, images |-> NoImages] : k \in {"None", "badjson", "str_nonmap"}}
    \cup {[kind |-> k, workflow |-> FALSE, images |-> NoImages] : k \in {"map", "str_map"}}
    \cup {[kind |-> "str_map", workflow |-> TRUE, images |-> NoImages]}
    \cup {[kind |-> "map", workflow |-> TRUE, images |-> im] : im \in ImagesValues}

(* ------------------------------ payloads ------------------------------- *)
NoPayload == <<>>
Text(s) == [enc |-> "text", text |-> s]
Inline(f) == [enc |-> "b64", file |-> f]
Url(f) == [enc |-> "url", file |-> f]
ErrorOnly(msg) == [error |-> msg]

MSG_NO_INPUT == "Please provide input"
MSG_BAD_JSON == "Invalid JSON format in input"
MSG_NO_WORKFLOW == "Missing 'workflow' parameter"
MSG_BAD_IMAGES == "'images' must be a list of objects with 'name' and 'image' keys"
MSG_UNAVAILABLE == "ComfyUI API unavailable"
MSG_QUEUE_FAILED == "Workflow queueing failed"
MSG_TIMEOUT == "Workflow execution timeout"
MSG_POLL_FAILED == "Polling failed"

(* ---------------------------- validate_input --------------------------- *)
\* "name" in image and "image" in image, for one element
ElemCheck(e) ==
    CASE e \in {"ok", "undecodable"} -> "true"
      [] e = "incomplete" -> "false"
      [] e = "str" -> "true"          \* substring test on a text
      [] e = "int" -> "raise"         \* TypeError: not iterable

\* all(... for image in images): stops at the first false element
RECURSIVE AllCheck(_, _)
AllCheck(items, k) ==
    IF k > Len(items) THEN "true"
    ELSE LET c == ElemCheck(items[k])
         IN  IF c = "true" THEN AllCheck(items, k + 1) ELSE c

Rejected(msg) == [ret |-> "error", error |-> msg, images |-> NoImages]

validate_input(inp) ==
    CASE inp.kind = "None" -> Rejected(MSG_NO_INPUT)
      [] inp.kind = "badjson" -> Rejected(MSG_BAD_JSON)
      [] inp.kind = "str_nonmap" -> [ret |-> "raise", error |-> "", images |-> NoImages]
      [] OTHER ->
            IF ~inp.workflow THEN Rejected(MSG_NO_WORKFLOW)
            ELSE IF ~inp.images.present
                 THEN [ret |-> "ok", error |-> "", images |-> NoImages]
            ELSE IF ~inp.images.isList THEN Rejected(MSG_BAD_IMAGES)
            ELSE LET a == AllCheck(inp.images.items, 1)
                 IN  CASE a = "false" -> Rejected(MSG_BAD_IMAGES)
                       [] a = "raise" -> [ret |-> "raise", error |-> "", images |-> NoImages]
                       [] OTHER -> [ret |-> "ok", error |-> "", images |-> inp.images]

(* --------------------- environment of the materialization -------------- *)
\* Lines 153-163 and 178-181 run only when a file was found.  They read
\* BUCKET_ENDPOINT_URL (bucket), then upload or read the file, which succeeds
\* or raises (ioOk); large: the file is a video bigger than 20 MiB.
NotMaterialized == [read |-> FALSE, bucket |-> FALSE, ioOk |-> FALSE, large |-> FALSE]
Materialized(bucket, ioOk, large) ==
    [read |-> TRUE, bucket |-> bucket, ioOk |-> ioOk, large |-> large]

(* ------------------------------ initial state -------------------------- *)
Init ==
    /\ REFRESH_WORKER \in BOOLEAN
    /\ COMFY_POLLING_INTERVAL_MS \in 0..MaxPollInterval
    /\ COMFY_POLLING_MAX_RETRIES \in 1..MaxPollRetries
    /\ pc = "Idle"
    /\ job_input = [kind |-> "None", workflow |-> FALSE, images |-> NoImages]
    /\ validated_data = NoImages
    /\ i = 0
    /\ serverReady = FALSE
    /\ idx = 1
    /\ responses = <<>>
    /\ upload_errors = <<>>
    /\ upload_result = NoPayload
    /\ outcomes = <<>>
    /\ queued = "none"
    /\ elapsed = 0
    /\ outputs = <<>>
    /\ result = NoPayload
    /\ dir = {}
    /\ dirExists \in BOOLEAN
    /\ nGet = 0 /\ nUpload = 0 /\ nPrompt = 0 /\ nHistory = 0
    /\ cleaned = FALSE
    /\ cleanupFailed = FALSE
    /\ env = NotMaterialized

(* ------------------------------ handler -------------------------------- *)
\* the dispatcher calls handler(job) for the next job; files left in the
\* output directory are from now on files of an earlier job
StartJob ==
    /\ pc = "Idle"
    /\ \E inp \in JobInputs : job_input' = inp
    /\ pc' = "Validating"
    /\ dir' = {[f EXCEPT !.stale = TRUE] : f \in dir}
    /\ UNCHANGED <<cfg, validated_data, probeVars, uploadVars, queued, pollVars,
                   result, dirExists, netVars, cleaned, cleanupFailed, env>>

\* handler has returned (or raised): its frame is gone, the dispatcher has the
\* payload and the worker waits for the next job
BackToDispatcher ==
    /\ pc \in {"Done", "Raised"}
    /\ pc' = "Idle"
    /\ job_input' = [kind |-> "None", workflow |-> FALSE, images |-> NoImages]
    /\ validated_data' = NoImages
    /\ i' = 0 /\ serverReady' = FALSE
    /\ idx' = 1 /\ responses' = <<>> /\ upload_errors' = <<>>
    /\ upload_result' = NoPayload /\ outcomes' = <<>>
    /\ queued' = "none"
    /\ elapsed' = 0 /\ outputs' = <<>>
    /\ result' = NoPayload
    /\ nGet' = 0 /\ nUpload' = 0 /\ nPrompt' = 0 /\ nHistory' = 0
    /\ cleaned' = FALSE
    /\ env' = NotMaterialized
    /\ UNCHANGED <<cfg, fsVars, cleanupFailed>>

\* lines 194-196
Validate ==
    /\ pc = "Validating"
    /\ LET v == validate_input(job_input)
       IN  CASE v.ret = "error" ->
                  /\ pc' = "Done" /\ result' = ErrorOnly(v.error)
                  /\ UNCHANGED validated_data
             [] v.ret = "raise" ->
                  /\ pc' = "Raised" /\ UNCHANGED <<result, validated_data>>
             [] OTHER ->
                  /\ pc' = "ProbingReady" /\ validated_data' = v.images
                  /\ UNCHANGED result
    /\ UNCHANGED <<cfg, job_input, probeVars, uploadVars, queued, pollVars,
                   fsVars, netVars, cleaned, cleanupFailed, env>>

(* ----------------------------- check_server ---------------------------- *)
ProbeAnswers == {"200", "non200", "connfail"}

\* a check_server that gives up on the first connection failure
ProbeRequest_FatalConnFail ==
    /\ pc = "ProbingReady"
    /\ i < COMFY_API_AVAILABLE_MAX_RETRIES
    /\ nGet' = nGet + 1
    /\ \E resp \in ProbeAnswers :
          IF resp = "200"
          THEN /\ serverReady' = TRUE
               /\ pc' = "Uploading"
               /\ i' = i
          ELSE /\ i' = IF resp = "connfail" THEN COMFY_API_AVAILABLE_MAX_RETRIES ELSE i + 1
               /\ UNCHANGED <<serverReady, pc>>
    /\ UNCHANGED <<cfg, job_input, validated_data, uploadVars, queued,
                   pollVars, result, fsVars, nUpload, nPrompt, nHistory,
                   cleaned, cleanupFailed, env>>

\* lines 69-76: one iteration of the loop of check_server
ProbeRequest ==
    /\ pc = "ProbingReady"
    /\ i < COMFY_API_AVAILABLE_MAX_RETRIES
    /\ nGet' = nGet + 1
    /\ \E resp \in ProbeAnswers :
          IF resp = "200"
          THEN /\ serverReady' = TRUE
               /\ pc' = "Uploading"
               /\ i' = i
          ELSE /\ i' = i + 1
               /\ UNCHANGED <<serverReady, pc>>
    /\ UNCHANGED <<cfg, job_input, validated_data, uploadVars, queued,
                   pollVars, result, fsVars, nUpload, nPrompt, nHistory,
                   cleaned, cleanupFailed, env>>

\* the variant of handler that goes on when the service never answered
ProbeExhausted_Proceeds ==
    /\ pc = "ProbingReady"
    /\ i >= COMFY_API_AVAILABLE_MAX_RETRIES
    /\ pc' = "Uploading"
    /\ UNCHANGED <<cfg, job_input, validated_data, probeVars, uploadVars,
                   queued, pollVars, result, fsVars, netVars, cleaned, cleanupFailed, env>>

\* lines 77-78 and 199-204: the loop is over, check_server returns False
ProbeExhausted ==
    /\ pc = "ProbingReady"
    /\ i >= COMFY_API_AVAILABLE_MAX_RETRIES
    /\ pc' = "Done"
    /\ result' = ErrorOnly(MSG_UNAVAILABLE)
    /\ UNCHANGED <<cfg, job_input, validated_data, probeVars, uploadVars,
                   queued, pollVars, fsVars, netVars, cleaned, cleanupFailed, env>>

(* ----------------------------- upload_images --------------------------- *)
UploadAnswers == {"200", "non200", "exception"}

\* "if not images": None and the empty list
Falsy(images) == ~images.present \/ Len(images.items) = 0

\* an entry of responses or of upload_errors; the asset is named by its position
Entry(k, text) == [name |-> k, text |-> text]

\* an uploader that stops recording when the request raises
RecordUpload_DropException(k, resp, resps, errs) ==
    IF resp = "200"
    THEN [responses |-> Append(resps, Entry(k, "Uploaded")), upload_errors |-> errs]
    ELSE IF resp = "exception"
    THEN [responses |-> resps, upload_errors |-> errs]
    ELSE [responses |-> resps, upload_errors |-> Append(errs, Entry(k, resp))]

\* lines 97-104: what the answer to the request for asset k adds to the two lists
RecordUpload(k, resp, resps, errs) ==
    IF resp = "200"
    THEN [responses |-> Append(resps, Entry(k, "Uploaded")), upload_errors |-> errs]
    ELSE [responses |-> resps, upload_errors |-> Append(errs, Entry(k, resp))]

\* lines 106-119
UploadSummary(resps, errs) ==
    IF Len(errs) > 0
    THEN [status |-> "error", message |-> Text("Partial upload failure"), details |-> errs]
    ELSE [status |-> "success", message |-> Text("All images uploaded"), details |-> resps]

\* lines 83-84
UploadEmpty ==
    /\ pc = "Uploading"
    /\ Falsy(validated_data)
    /\ upload_result' = [status |-> "success", message |-> Text("No images to upload"),
                         details |-> <<>>]
    /\ pc' = "Submitting"
    /\ UNCHANGED <<cfg, job_input, validated_data, probeVars, idx, responses,
                   upload_errors, outcomes, queued, pollVars, result, fsVars,
                   netVars, cleaned, cleanupFailed, env>>

\* lines 90-104: one iteration of the loop of upload_images
UploadAsset ==
    /\ pc = "Uploading"
    /\ ~Falsy(validated_data)
    /\ idx <= Len(validated_data.items)
    /\ LET image == validated_data.items[idx]
       IN  IF image \in {"str", "undecodable"}
           THEN \* image["name"] on a text (TypeError) or b64decode (binascii.Error),
                \* both outside the try block
                /\ pc' = "Raised"
                /\ UNCHANGED <<idx, responses, upload_errors, outcomes, nUpload>>
           ELSE \E resp \in UploadAnswers :
                  LET r == RecordUpload(idx, resp, responses, upload_errors)
                  IN  /\ responses' = r.responses
                      /\ upload_errors' = r.upload_errors
                      /\ outcomes' = Append(outcomes, resp)
                      /\ nUpload' = nUpload + 1
                      /\ idx' = idx + 1
                      /\ UNCHANGED pc
    /\ UNCHANGED <<cfg, job_input, validated_data, probeVars, upload_result,
                   queued, pollVars, result, fsVars, nGet, nPrompt, nHistory,
                   cleaned, cleanupFailed, env>>

\* a handler that submits the workflow whatever the uploads gave
UploadFinish_Proceeds ==
    /\ pc = "Uploading"
    /\ ~Falsy(validated_data)
    /\ idx > Len(validated_data.items)
    /\ upload_result' = UploadSummary(responses, upload_errors)
    /\ pc' = "Submitting"
    /\ UNCHANGED <<cfg, job_input, validated_data, probeVars, idx, responses,
                   upload_errors, outcomes, queued, pollVars, result, fsVars, netVars,
                   cleaned, cleanupFailed, env>>

\* lines 106-119 and 207-209
UploadFinish ==
    /\ pc = "Uploading"
    /\ ~Falsy(validated_data)
    /\ idx > Len(validated_data.items)
    /\ LET s == UploadSummary(responses, upload_errors)
       IN  /\ upload_result' = s
           /\ IF s.status = "error"
              THEN pc' = "Done" /\ result' = s
              ELSE pc' = "Submitting" /\ UNCHANGED result
    /\ UNCHANGED <<cfg, job_input, validated_data, probeVars, idx, responses,
                   upload_errors, outcomes, queued, pollVars, fsVars, netVars,
                   cleaned, cleanupFailed, env>>

(* ----------------------------- queue_workflow -------------------------- *)
\* ok: JSON with a prompt_id; transport: urlopen raises; unparsable: json.loads
\* raises; noid: JSON without "prompt_id"
SubmitAnswers == {"ok", "transport", "unparsable", "noid"}

\* a handler that submits a second time after a failed submission
Submit_Retry ==
    /\ pc = "Submitting"
    /\ nPrompt' = nPrompt + 1
    /\ \E resp \in SubmitAnswers :
          /\ queued' = resp
          /\ IF resp = "ok" \/ nPrompt = 0
             THEN pc' = (IF resp = "ok" THEN "Polling" ELSE "Submitting") /\ UNCHANGED result
             ELSE pc' = "Done" /\ result' = ErrorOnly(MSG_QUEUE_FAILED)
    /\ elapsed' = 0
    /\ UNCHANGED <<cfg, job_input, validated_data, probeVars, uploadVars,
                   outputs, fsVars, nGet, nUpload, nHistory, cleaned, cleanupFailed, env>>

\* lines 122-126 and 212-221
Submit ==
    /\ pc = "Submitting"
    /\ nPrompt' = nPrompt + 1
    /\ \E resp \in SubmitAnswers :
          /\ queued' = resp
          /\ IF resp = "ok"
             THEN pc' = "Polling" /\ UNCHANGED result
             ELSE pc' = "Done" /\ result' = ErrorOnly(MSG_QUEUE_FAILED)
    /\ elapsed' = 0
    /\ UNCHANGED <<cfg, job_input, validated_data, probeVars, uploadVars,
                   outputs, fsVars, nGet, nUpload, nHistory, cleaned, cleanupFailed, env>>

(* ------------------------- the output directory ----------------------- *)
\* a file of the output directory: its path below COMFY_OUTPUT_PATH and whether
\* it was written during an earlier job
VideoName == "LP_00001.mp4"
ImagePaths == {"a.png", "b.png"}
File(name, stale) == [name |-> name, stale |-> stale]
\* f.startswith("LP_") and f.endswith(".mp4")
IsVideo(name) == name = VideoName

\* The service executes the submitted workflow and saves a file.  A video gets
\* a name of its own (the save node numbers its files); an image path that is
\* already there is overwritten.
ServiceWrite ==
    /\ pc = "Polling"
    /\ \E n \in {VideoName} \cup ImagePaths :
          dir' = (IF IsVideo(n) THEN dir ELSE dir \ {File(n, TRUE)}) \cup {File(n, FALSE)}
    /\ dir' # dir
    /\ dirExists' = TRUE
    /\ UNCHANGED <<cfg, pc, job_input, validated_data, probeVars, uploadVars,
                   queued, pollVars, result, netVars, cleaned, cleanupFailed, env>>

(* ------------------------------- polling ------------------------------- *)
\* a node of history[prompt_id]["outputs"]: with or without an "images" list
Node(has, imgs) == [has_images |-> has, images |-> imgs]
OutputShapes ==
    { <<Node(FALSE, <<>>)>>,
      <<Node(TRUE, <<>>)>>,
      <<Node(TRUE, <<"a.png">>)>>,
      <<Node(TRUE, <<"a.png">>), Node(FALSE, <<>>)>>,
      <<Node(TRUE, <<"a.png">>), Node(TRUE, <<"b.png">>)>>,
      <<Node(TRUE, <<"b.png", "a.png">>)>> }

\* exception: urlopen or json.loads raises; absent: prompt_id is not a key;
\* no_outputs: the record has no (or empty) outputs; done: outputs are there
HistoryAnswers == {"exception", "absent", "no_outputs", "done"}

\* COMFY_POLLING_MAX_RETRIES * COMFY_POLLING_INTERVAL_MS (line 223)
Deadline == COMFY_POLLING_MAX_RETRIES * COMFY_POLLING_INTERVAL_MS

Min(a, b) == IF a < b THEN a ELSE b

\* a loop whose clock does not see the time spent sleeping
PollRequest_SleepNotCounted ==
    /\ pc = "Polling"
    /\ elapsed < Deadline
    /\ nHistory' = nHistory + 1
    /\ \E ans \in HistoryAnswers :
          CASE ans = "exception" ->
                 /\ pc' = "Done" /\ result' = ErrorOnly(MSG_POLL_FAILED)
                 /\ elapsed' = 0 /\ UNCHANGED outputs
            [] ans = "done" ->
                 /\ pc' = "Resolving"
                 /\ \E o \in OutputShapes : outputs' = o
                 /\ elapsed' = 0 /\ UNCHANGED result
            [] OTHER ->
                 /\ \E d \in 0..MaxLatency : elapsed' = Min(elapsed + d, Deadline)
                 /\ UNCHANGED <<pc, outputs, result>>
    /\ UNCHANGED <<cfg, job_input, validated_data, probeVars, uploadVars,
                   queued, fsVars, nGet, nUpload, nPrompt, cleaned, cleanupFailed, env>>

\* the counted discipline: a loop of COMFY_POLLING_MAX_RETRIES attempts
PollRequest_Counted ==
    /\ pc = "Polling"
    /\ nHistory < COMFY_POLLING_MAX_RETRIES
    /\ nHistory' = nHistory + 1
    /\ \E ans \in HistoryAnswers :
          CASE ans = "exception" ->
                 /\ pc' = "Done" /\ result' = ErrorOnly(MSG_POLL_FAILED)
                 /\ elapsed' = 0 /\ UNCHANGED outputs
            [] ans = "done" ->
                 /\ pc' = "Resolving"
                 /\ \E o \in OutputShapes : outputs' = o
                 /\ elapsed' = 0 /\ UNCHANGED result
            [] OTHER ->
                 /\ \E d \in 0..MaxLatency :
                       elapsed' = Min(elapsed + d + COMFY_POLLING_INTERVAL_MS, Deadline)
                 /\ UNCHANGED <<pc, outputs, result>>
    /\ UNCHANGED <<cfg, job_input, validated_data, probeVars, uploadVars,
                   queued, fsVars, nGet, nUpload, nPrompt, cleaned, cleanupFailed, env>>

\* lines 223-227 and 230-231: one iteration of the polling loop; the request
\* takes d time units, the sleep COMFY_POLLING_INTERVAL_MS.  The clock is not
\* read again once the loop is left by break or by an exception.
PollRequest ==
    /\ pc = "Polling"
    /\ elapsed < Deadline
    /\ nHistory' = nHistory + 1
    /\ \E ans \in HistoryAnswers :
          CASE ans = "exception" ->
                 /\ pc' = "Done" /\ result' = ErrorOnly(MSG_POLL_FAILED)
                 /\ elapsed' = 0 /\ UNCHANGED outputs
            [] ans = "done" ->
                 /\ pc' = "Resolving"
                 /\ \E o \in OutputShapes : outputs' = o
                 /\ elapsed' = 0 /\ UNCHANGED result
            [] OTHER ->
                 /\ \E d \in 0..MaxLatency :
                       elapsed' = Min(elapsed + d + COMFY_POLLING_INTERVAL_MS, Deadline)
                 /\ UNCHANGED <<pc, outputs, result>>
    /\ UNCHANGED <<cfg, job_input, validated_data, probeVars, uploadVars,
                   queued, fsVars, nGet, nUpload, nPrompt, cleaned, cleanupFailed, env>>

\* lines 223 and 228-229: the loop condition is false, the else branch returns
PollTimeout ==
    /\ pc = "Polling"
    /\ ~(elapsed < Deadline)
    /\ pc' = "Done"
    /\ result' = ErrorOnly(MSG_TIMEOUT)
    /\ UNCHANGED <<cfg, job_input, validated_data, probeVars, uploadVars,
                   queued, pollVars, fsVars, netVars, cleaned, cleanupFailed, env>>

(* ------------------------- process_output_images ----------------------- *)
\* lines 168-173: the paths of all images of all nodes, in iteration order
RECURSIVE ImagesOf(_)
ImagesOf(outs) ==
    IF Len(outs) = 0 THEN <<>>
    ELSE (IF Head(outs).has_images THEN Head(outs).images ELSE <<>>) \o ImagesOf(Tail(outs))

\* lines 154-163 and 179-181: external storage when configured, else inline
Materialize(f, bucket) == IF bucket THEN Url(f) ELSE Inline(f)

Returned(payload) == [ret |-> "ok", payload |-> payload]
Raises == [ret |-> "raise", payload |-> NoPayload]

\* a resolver that looks at the reported images before it looks for a video
process_output_images_ImageFirst(outs, files, exists, bucket, ioOk) ==
    LET video_files == {f \in files : IsVideo(f.name)}
        newest == IF \E f \in video_files : ~f.stale
                  THEN File(VideoName, FALSE) ELSE File(VideoName, TRUE)
        paths == ImagesOf(outs)
        found == IF Len(paths) = 0 THEN {}
                 ELSE {f \in files : f.name = paths[Len(paths)]}
    IN  IF ~exists THEN Raises
        ELSE IF found # {}
        THEN IF ioOk
             THEN Returned([status |-> "success",
                            message |-> Materialize(CHOOSE f \in found : TRUE, bucket)])
             ELSE Returned([status |-> "error", message |-> Text("Image processing failed")])
        ELSE IF video_files # {}
        THEN IF ioOk
             THEN Returned([status |-> "success", message |-> Materialize(newest, bucket),
                            is_video |-> TRUE])
             ELSE Returned([status |-> "error", message |-> Text("Video handling failed")])
        ELSE IF Len(paths) = 0 THEN Raises
        ELSE Returned([status |-> "error", message |-> Text("No output files generated")])

\* a resolver that keeps the first image reported instead of the last
process_output_images_FirstWins(outs, files, exists, bucket, ioOk) ==
    LET video_files == {f \in files : IsVideo(f.name)}
        newest == IF \E f \in video_files : ~f.stale
                  THEN File(VideoName, FALSE) ELSE File(VideoName, TRUE)
        paths == ImagesOf(outs)
    IN  IF ~exists THEN Raises
        ELSE IF video_files # {}
        THEN IF ioOk
             THEN Returned([status |-> "success", message |-> Materialize(newest, bucket),
                            is_video |-> TRUE])
             ELSE Returned([status |-> "error", message |-> Text("Video handling failed")])
        ELSE IF Len(paths) = 0 THEN Raises
        ELSE LET img_path == paths[1]
                 found == {f \in files : f.name = img_path}
             IN  IF found # {}
                 THEN IF ioOk
                      THEN Returned([status |-> "success",
                                     message |-> Materialize(CHOOSE f \in found : TRUE, bucket)])
                      ELSE Returned([status |-> "error", message |-> Text("Image processing failed")])
                 ELSE Returned([status |-> "error", message |-> Text("No output files generated")])

\* lines 141-186; ioOk: the read or the upload of the file succeeds
process_output_images(outs, files, exists, bucket, ioOk) ==
    LET video_files == {f \in files : IsVideo(f.name)}
        \* sorted by creation time: a file of the running job is the newest
        newest == IF \E f \in video_files : ~f.stale
                  THEN File(VideoName, FALSE) ELSE File(VideoName, TRUE)
        paths == ImagesOf(outs)
    IN  IF ~exists THEN Raises                      \* os.listdir: FileNotFoundError
        ELSE IF video_files # {}
        THEN IF ioOk
             THEN Returned([status |-> "success", message |-> Materialize(newest, bucket),
                            is_video |-> TRUE])
             ELSE Returned([status |-> "error", message |-> Text("Video handling failed")])
        ELSE IF Len(paths) = 0 THEN Raises          \* os.path.join(path, {}): TypeError
        ELSE LET img_path == paths[Len(paths)]
                 found == {f \in files : f.name = img_path}
             IN  IF found # {}
                 THEN IF ioOk
                      THEN Returned([status |-> "success",
                                     message |-> Materialize(CHOOSE f \in found : TRUE, bucket)])
                      ELSE Returned([status |-> "error", message |-> Text("Image processing failed")])
                 ELSE Returned([status |-> "error", message |-> Text("No output files generated")])

\* line 148
VideoFound(files) == \E f \in files : IsVideo(f.name)

\* lines 148 and 176: a video file is there, or else the resolved image path is
FileFound(outs, files, exists) ==
    /\ exists
    /\ \/ VideoFound(files)
       \/ /\ Len(ImagesOf(outs)) > 0
          /\ \E f \in files : f.name = ImagesOf(outs)[Len(ImagesOf(outs))]

\* line 234; bucket: os.environ.get("BUCKET_ENDPOINT_URL") is set, as read when
\* the resolver runs
Resolve ==
    /\ pc = "Resolving"
    /\ \E bucket \in BOOLEAN, ioOk \in BOOLEAN, large \in BOOLEAN :
          LET r == process_output_images(outputs, dir, dirExists, bucket, ioOk)
          IN  /\ IF r.ret = "raise"
                 THEN pc' = "Raised" /\ UNCHANGED result
                 ELSE pc' = "Cleanup" /\ result' = r.payload
              /\ env' = IF FileFound(outputs, dir, dirExists)
                        THEN Materialized(bucket, ioOk, large /\ VideoFound(dir))
                        ELSE NotMaterialized
    /\ UNCHANGED <<cfg, job_input, validated_data, probeVars, uploadVars,
                   queued, pollVars, fsVars, netVars, cleaned, cleanupFailed>>

(* -------------------------------- cleanup ------------------------------ *)
\* a handler that always reports the default directive
WithRefresh_Constant(payload, flag) ==
    [k \in DOMAIN payload \cup {"refresh_worker"} |->
        IF k = "refresh_worker" THEN FALSE ELSE payload[k]]

\* {**result, "refresh_worker": REFRESH_WORKER}
WithRefresh(payload, flag) ==
    [k \in DOMAIN payload \cup {"refresh_worker"} |->
        IF k = "refresh_worker" THEN flag ELSE payload[k]]

\* What the walk of lines 239-241 can leave behind: nothing when every os.remove
\* succeeds; when one raises, the walk stops and that file and the files not yet
\* visited stay.  The failures enumerated are those on the first file visited
\* (everything stays) and on the last one (only that file stays).
Leftovers(files) == {{}, files} \cup {{f} : f \in files}

\* a handler that reports a failed deletion instead of the job's result
Cleanup_Propagates ==
    /\ pc = "Cleanup"
    /\ \E keep \in Leftovers(dir) :
          /\ dir' = keep
          /\ cleanupFailed' = (cleanupFailed \/ keep # {})
          /\ result' = IF keep # {}
                       THEN WithRefresh(ErrorOnly("Cleanup failed"), REFRESH_WORKER)
                       ELSE WithRefresh(result, REFRESH_WORKER)
    /\ cleaned' = TRUE
    /\ pc' = "Done"
    /\ UNCHANGED <<cfg, job_input, validated_data, probeVars, uploadVars,
                   queued, pollVars, dirExists, netVars, env>>

\* lines 237-246: the error of a failed os.remove is logged and handler returns
Cleanup ==
    /\ pc = "Cleanup"
    /\ \E keep \in Leftovers(dir) :
          /\ dir' = keep
          /\ cleanupFailed' = (cleanupFailed \/ keep # {})
    /\ cleaned' = TRUE
    /\ result' = WithRefresh(result, REFRESH_WORKER)
    /\ pc' = "Done"
    /\ UNCHANGED <<cfg, job_input, validated_data, probeVars, uploadVars,
                   queued, pollVars, dirExists, netVars, env>>

Next ==
    \/ StartJob \/ BackToDispatcher \/ Validate
    \/ ProbeRequest \/ ProbeExhausted
    \/ UploadEmpty \/ UploadAsset \/ UploadFinish
    \/ Submit
    \/ ServiceWrite \/ PollRequest \/ PollTimeout
    \/ Resolve \/ Cleanup

Spec == Init /\ [][Next]_vars

(* ------------------------------ properties ----------------------------- *)
IsSuccess(payload) == "status" \in DOMAIN payload /\ payload.status = "success"
NoRequestAfterProbe == nUpload = 0 /\ nPrompt = 0 /\ nHistory = 0
AssetCount == Len(validated_data.items)

\* C1: whenever handler has returned a payload, whichever stage produced it,
\* the Cleanup block (deleting the files of the output directory) has run in
\* that invocation.
C1_CleanupBeforeEveryReturn ==
    pc = "Done" => cleaned

\* C2: every payload handler returns has the field refresh_worker, and its
\* value is the configured REFRESH_WORKER.
C2_EveryPayloadCarriesRefreshWorker ==
    pc = "Done" =>
        /\ "refresh_worker" \in DOMAIN result
        /\ result.refresh_worker = REFRESH_WORKER

\* C3: every payload handler returns for a failure has status = "error" and a
\* message field.
C3_FailuresAreStatusErrorWithMessage ==
    (pc = "Done" /\ ~IsSuccess(result)) =>
        /\ "status" \in DOMAIN result
        /\ result.status = "error"
        /\ "message" \in DOMAIN result

\* C4: no exception escapes handler: every invocation ends by returning a
\* payload.
C4_NoExceptionEscapesHandler ==
    pc # "Raised"

\* C5: once the readiness probe has used up its attempts without seeing 200,
\* handler has returned the "ComfyUI API unavailable" error and the job has
\* issued no upload, no submission and no history request.
ProbeFailed ==
    /\ pc \notin {"Idle", "Validating", "ProbingReady"}
    /\ nGet = COMFY_API_AVAILABLE_MAX_RETRIES
    /\ ~serverReady
C5_ReadinessFailureAbortsJob ==
    ProbeFailed =>
        /\ pc = "Done"
        /\ result = ErrorOnly(MSG_UNAVAILABLE)
        /\ NoRequestAfterProbe
C5_Witness ==
    ProbeFailed /\ pc = "Done" /\ AssetCount > 0

\* C6: as long as no deletion of a Cleanup block has failed, the output
\* directory never holds a file written during an earlier job while a job
\* runs, and the artifact of a successful result is a file of the running job.
C6_NoFileOfAnEarlierJob ==
    ~cleanupFailed =>
        /\ \A f \in dir : ~f.stale
        /\ (pc \in {"Cleanup", "Done"} /\ IsSuccess(result)) => ~result.message.file.stale

\* C7: when upload_images is over for a list of well-formed assets (mappings
\* with a name and a content), it has issued one upload request per asset.
UploadOver == serverReady /\ pc # "Uploading"
C7_EveryAssetAttempted ==
    (UploadOver /\ \A k \in 1..AssetCount : validated_data.items[k] \in {"ok", "undecodable"})
        => nUpload = AssetCount

\* C8: the summary upload_images returns has status "error" iff some upload
\* request failed; its details then name exactly the failed assets, in list
\* order; otherwise the status is "success" and details has one confirmation
\* per asset, in list order.
FailedAssets == {k \in 1..Len(outcomes) : outcomes[k] # "200"}
C8_UploadSummaryMatchesOutcomes ==
    upload_result # NoPayload =>
        /\ Len(outcomes) = AssetCount
        /\ upload_result.status = "error" <=> FailedAssets # {}
        /\ upload_result.status = "error" =>
              /\ Len(upload_result.details) = Cardinality(FailedAssets)
              /\ {upload_result.details[j].name : j \in DOMAIN upload_result.details} = FailedAssets
              /\ \A j, l \in DOMAIN upload_result.details :
                    j < l => upload_result.details[j].name < upload_result.details[l].name
        /\ upload_result.status # "error" =>
              /\ upload_result.status = "success"
              /\ Len(upload_result.details) = AssetCount
              /\ \A k \in 1..AssetCount :
                    upload_result.details[k] = Entry(k, "Uploaded")
C8_Witness ==
    /\ upload_result # NoPayload
    /\ upload_result.status = "error"
    /\ outcomes = <<"non200", "200", "exception">>

\* C9: a job whose asset list has an element that is not a mapping with a name
\* and a content is rejected by validation with the 'images' message, and
\* handler returns without any request to the service.
MalformedAssetList ==
    /\ job_input.kind = "map" /\ job_input.workflow
    /\ job_input.images.present /\ job_input.images.isList
    /\ \E k \in DOMAIN job_input.images.items :
          job_input.images.items[k] \notin {"ok", "undecodable"}
C9_MalformedAssetRejectedWithoutRequest ==
    (MalformedAssetList /\ pc # "Validating") =>
        /\ pc = "Done"
        /\ result = ErrorOnly(MSG_BAD_IMAGES)
        /\ nGet = 0 /\ NoRequestAfterProbe

\* C10: a job issues POST /prompt at most once; when that request fails
\* (transport error, unparsable answer, answer without prompt_id) handler has
\* returned the queueing error and no history request was made.
C10_SubmitAtMostOnce ==
    /\ nPrompt <= 1
    /\ queued \in {"transport", "unparsable", "noid"} =>
          /\ pc = "Done"
          /\ result = ErrorOnly(MSG_QUEUE_FAILED)
          /\ nHistory = 0
C10_Witness ==
    /\ queued \in {"transport", "unparsable", "noid"}
    /\ pc = "Done" /\ nPrompt = 1 /\ AssetCount > 0

(* ----------------------- properties of the polling loop ---------------- *)
\* The worker thread keeps running and every history request returns: the
\* loop of lines 223-229 takes its next step whenever it has one.
FairSpec == Spec /\ WF_vars(PollRequest) /\ WF_vars(PollTimeout)

\* every history answer that does not end the loop uses up at least one
\* interval of the budget, and a timeout is returned only when the budget is
\* used up
BudgetUsed ==
    /\ pc = "Polling" => elapsed >= Min(nHistory * COMFY_POLLING_INTERVAL_MS, Deadline)
    /\ (pc = "Done" /\ result = ErrorOnly(MSG_TIMEOUT)) =>
          /\ elapsed >= Deadline
          /\ queued = "ok" /\ outputs = <<>>

\* C11: when the history never reports completed outputs the polling loop
\* ends in PollTimeout once the budget is used up; a job that is polling
\* always leaves the loop: a history answer ends it (completed outputs, or an
\* exception) or handler returns the timeout error.
C11_PollingEnds ==
    /\ []BudgetUsed
    /\ (pc = "Polling") ~> (pc \in {"Resolving", "Done"})

C11_Witness ==
    /\ pc = "Done"
    /\ result = ErrorOnly(MSG_TIMEOUT)
    /\ nHistory = COMFY_POLLING_MAX_RETRIES
    /\ nHistory >= 2

(* ----------------------- properties of the resolver -------------------- *)
\* While pc = "Cleanup" the resolver has returned and the directory is still
\* the one it has seen.
VideoInDir == \E f \in dir : f.name = VideoName

\* C12: when a video file is in the output directory while the resolver runs,
\* a success result is that video (is_video = TRUE), whatever images the history
\* reports; a success result is an image only when no video file is there.
C12_VideoPreferred ==
    (pc = "Cleanup" /\ IsSuccess(result)) =>
        /\ VideoInDir =>
              /\ "is_video" \in DOMAIN result
              /\ result.is_video = TRUE
              /\ result.message.file.name = VideoName
        /\ result.message.file.name # VideoName =>
              /\ ~VideoInDir
              /\ "is_video" \notin DOMAIN result
C12_Witness ==
    /\ pc = "Cleanup" /\ IsSuccess(result)
    /\ VideoInDir
    /\ File("a.png", FALSE) \in dir
    /\ outputs = <<Node(TRUE, <<"a.png">>)>>

\* C13: a video bigger than 20 MiB that would be returned inline (no external
\* storage configured) gives an error result instead of the encoded content;
\* with external storage configured the same video gives a success result
\* with its URL.
C13_InlineVideoSizeLimit ==
    (pc = "Cleanup" /\ VideoInDir /\ env.read /\ env.ioOk /\ env.large) =>
        IF env.bucket
        THEN IsSuccess(result) /\ result.message.enc = "url"
        ELSE result.status = "error"

\* the resolver has run for a history that became complete on a later poll
\* attempt and reports one image; that image is in the output directory, no
\* video is, the file is read without error and no external storage is set
C14_Scenario ==
    /\ pc = "Cleanup"
    /\ nHistory >= 2
    /\ Len(ImagesOf(outputs)) = 1
    /\ \E f \in dir : f.name = ImagesOf(outputs)[1]
    /\ ~VideoInDir
    /\ env.read /\ env.ioOk /\ ~env.bucket

C15_NothingToResolve ==
    /\ pc \in {"Cleanup", "Raised"}
    /\ outputs # <<>>
    /\ dirExists /\ ~VideoInDir
    /\ \/ Len(ImagesOf(outputs)) = 0
       \/ ~\E f \in dir : f.name = ImagesOf(outputs)[Len(ImagesOf(outputs))]

\* C15: with no video file present and no existing image path resolved from
\* the history (no node reporting an image included), the resolver returns the
\* error payload "No output files generated"; it neither succeeds nor fails
\* in another way.
C15_OutputNotFound ==
    C15_NothingToResolve =>
        /\ pc = "Cleanup"
        /\ result = [status |-> "error", message |-> Text("No output files generated")]

\* C16: within a job the stages run in the order GET /, POST /upload/image,
\* POST /prompt, GET /history, output resolution, each only after the earlier
\* ones succeeded: no upload before readiness was observed, no submission
\* after a failed upload, no history request before a prompt_id was obtained,
\* and no resolution before a history answer showed completed outputs.
C16_StageOrder ==
    /\ nUpload > 0 => serverReady /\ nGet > 0
    /\ nPrompt > 0 =>
          /\ serverReady
          /\ nUpload = AssetCount
          /\ \A k \in 1..Len(outcomes) : outcomes[k] = "200"
          /\ upload_result.status = "success"
    /\ nHistory > 0 => nPrompt = 1 /\ queued = "ok"
    /\ (pc \in {"Resolving", "Cleanup"} \/ env.read) =>
          /\ nHistory > 0 /\ queued = "ok"
          /\ outputs # <<>>

C16_Witness ==
    /\ pc = "Cleanup"
    /\ nGet >= 2 /\ nUpload >= 2 /\ nPrompt = 1 /\ nHistory >= 2

TimedOut == pc = "Done" /\ result = ErrorOnly(MSG_TIMEOUT)

\* C17: the deadline loop behaves as a loop of COMFY_POLLING_MAX_RETRIES
\* attempts: it goes on while fewer attempts than that were made, and it ends
\* in PollTimeout after exactly that many history requests.
C17_SameAsCountedLoop ==
    /\ (pc = "Polling" /\ nHistory < COMFY_POLLING_MAX_RETRIES) => elapsed < Deadline
    /\ TimedOut => nHistory = COMFY_POLLING_MAX_RETRIES

\* C17, amended: the deadline loop never issues more history requests than
\* the counted loop would, and none at all when the interval is 0; when it
\* ends in PollTimeout after fewer requests, the deadline has passed all the
\* same.
C17_AtMostCountedLoop ==
    /\ nHistory <= COMFY_POLLING_MAX_RETRIES
    /\ COMFY_POLLING_INTERVAL_MS = 0 => nHistory = 0
    /\ nHistory > 0 => nHistory * COMFY_POLLING_INTERVAL_MS <= Deadline
    /\ (TimedOut /\ nHistory < COMFY_POLLING_MAX_RETRIES) =>
          /\ elapsed = Deadline
          /\ nHistory * COMFY_POLLING_INTERVAL_MS < Deadline \/ Deadline = 0

C17_Witness ==
    /\ TimedOut
    /\ COMFY_POLLING_INTERVAL_MS > 0
    /\ nHistory = 1 /\ COMFY_POLLING_MAX_RETRIES = 2

\* C18: check_server issues at most COMFY_API_AVAILABLE_MAX_RETRIES GET
\* requests; it returns False after exactly that many requests, none of which
\* saw 200 (a non-200 status or a connection failure never ends the loop
\* early), and it returns True after exactly k requests when request k is the
\* first to see 200.
C18_ProbeRequestCount ==
    /\ nGet <= COMFY_API_AVAILABLE_MAX_RETRIES
    /\ pc = "ProbingReady" => ~serverReady /\ nGet = i
    /\ (pc = "Done" /\ result = ErrorOnly(MSG_UNAVAILABLE)) =>
          ~serverReady /\ nGet = COMFY_API_AVAILABLE_MAX_RETRIES
    /\ serverReady => nGet = i + 1
    /\ (pc \notin {"Idle", "Validating", "ProbingReady"} /\ ~serverReady /\ nGet > 0) =>
          nGet = COMFY_API_AVAILABLE_MAX_RETRIES

C18_Witness ==
    /\ serverReady
    /\ nGet = COMFY_API_AVAILABLE_MAX_RETRIES
    /\ i = COMFY_API_AVAILABLE_MAX_RETRIES - 1
    /\ i > 0

\* the number of images the nodes of the history report
RECURSIVE Reported(_)
Reported(outs) ==
    IF outs = <<>> THEN 0
    ELSE Reported(SubSeq(outs, 1, Len(outs) - 1))
         + (IF outs[Len(outs)].has_images THEN Len(outs[Len(outs)].images) ELSE 0)

\* the image met last when the nodes and their lists are walked in order:
\* the last image of the last node that reports one
RECURSIVE LastReported(_)
LastReported(outs) ==
    LET n == outs[Len(outs)]
    IN  IF n.has_images /\ Len(n.images) > 0
        THEN n.images[Len(n.images)]
        ELSE LastReported(SubSeq(outs, 1, Len(outs) - 1))

\* C19: with no video file present and several images reported by the nodes
\* of the history, the resolver resolves the one image met last in iteration
\* order: the payload it returns is made from that file alone, and it is
\* OutputNotFound when that file is missing, whatever other reported images
\* exist.
C19_LastImageWins ==
    (pc = "Cleanup" /\ ~VideoInDir /\ Reported(outputs) >= 2) =>
        IF \E f \in dir : f.name = LastReported(outputs)
        THEN /\ env.read
             /\ env.ioOk =>
                   /\ IsSuccess(result)
                   /\ result.message.file.name = LastReported(outputs)
                   /\ "is_video" \notin DOMAIN result
             /\ ~env.ioOk => result.status = "error"
        ELSE result = [status |-> "error", message |-> Text("No output files generated")]

C19_Witness ==
    /\ pc = "Cleanup"
    /\ outputs = <<Node(TRUE, <<"a.png">>), Node(TRUE, <<"b.png">>)>>
    /\ dir = {File("a.png", FALSE), File("b.png", FALSE)}
    /\ IsSuccess(result)
    /\ result.message.file.name = "b.png"

\* C20: a failed deletion in the Cleanup block is not propagated: the step
\* ends in a return, and the payload returned is the one the resolver
\* computed, every key of it unchanged, with refresh_worker added, whether or
\* not files are left behind.
C20_CleanupFailureNotPropagated ==
    [][pc = "Cleanup" =>
          /\ pc' = "Done"
          /\ DOMAIN result' = DOMAIN result \cup {"refresh_worker"}
          /\ \A k \in DOMAIN result : result'[k] = result[k]
          /\ result'.refresh_worker = REFRESH_WORKER]_vars

C20_Witness ==
    /\ pc = "Done" /\ cleaned
    /\ \E f \in dir : ~f.stale
    /\ IsSuccess(result)
    /\ result.refresh_worker = REFRESH_WORKER
====
